---- MODULE Spec2Model ----
\* Model of library/cloud/ec2_facts.py: Ec2Metadata crawls the metadata tree of a
\* cloud instance over HTTP GETs (fetch), re-keys the raw table (_mangle_fields),
\* adds two supplementary facts, rewrites invalid characters
\* (fix_invalid_varnames) and infers the region (add_ec2_region).
\*
\* Two more modules are modelled further down, each with variables and a
\* specification of its own: main() of library/cloud/ec2_group.py (GroupSpec)
\* and main() of library/system/hostname.py (HostSpec).  While one module
\* runs, the variables of the other two stay at their idle values.
\*
\* A Python string is modelled as the sequence of its characters, so that
\* split, join, replace, startswith, slicing and searching are computed as
\* Python computes them.  A dict is a function whose DOMAIN is its key set.
EXTENDS Integers, Sequences, FiniteSets, TLC

\* ---------------------------------------------------------------- strings
\* Python's None, as returned by _fetch on HTTPError/URLError: a value that is
\* no string of characters.
None == <<"None">>

\* 'http://host/meta/' (the class default with a short host and path)
ec2_metadata_uri == <<"h", "t", "t", "p", ":", "/", "/", "h", "o", "s", "t", "/", "m", "e", "t", "a", "/">>
\* 'http://host/meta/public-keys/0/openssh-key'
ec2_sshdata_uri == <<"h", "t", "t", "p", ":", "/", "/", "h", "o", "s", "t", "/", "m", "e", "t", "a", "/", "p", "u", "b", "l", "i", "c", "-", "k", "e", "y", "s", "/", "0", "/", "o", "p", "e", "n", "s", "s", "h", "-", "k", "e", "y">>
\* 'http://host/user-data/'
ec2_userdata_uri == <<"h", "t", "t", "p", ":", "/", "/", "h", "o", "s", "t", "/", "u", "s", "e", "r", "-", "d", "a", "t", "a", "/">>
\* 'http://host/meta': a base URI passed to the constructor without its trailing separator
uri_meta_noslash == <<"h", "t", "t", "p", ":", "/", "/", "h", "o", "s", "t", "/", "m", "e", "t", "a">>
\* self._prefix = 'ansible_ec2_%s' (the text before %s)
prefix_ == <<"a", "n", "s", "i", "b", "l", "e", "_", "e", "c", "2", "_">>
\* the default filter pattern 'public-keys-0'
pattern_public_keys_0 == <<"p", "u", "b", "l", "i", "c", "-", "k", "e", "y", "s", "-", "0">>
f_security_groups == <<"s", "e", "c", "u", "r", "i", "t", "y", "-", "g", "r", "o", "u", "p", "s">>
f_user_data == <<"u", "s", "e", "r", "-", "d", "a", "t", "a">>
f_public_key == <<"p", "u", "b", "l", "i", "c", "-", "k", "e", "y">>
zone_fact == <<"a", "n", "s", "i", "b", "l", "e", "_", "e", "c", "2", "_", "p", "l", "a", "c", "e", "m", "e", "n", "t", "_", "a", "v", "a", "i", "l", "a", "b", "i", "l", "i", "t", "y", "_", "z", "o", "n", "e">>
region_fact == <<"a", "n", "s", "i", "b", "l", "e", "_", "e", "c", "2", "_", "p", "l", "a", "c", "e", "m", "e", "n", "t", "_", "r", "e", "g", "i", "o", "n">>
AWS_REGIONS ==
    << <<"a", "p", "-", "n", "o", "r", "t", "h", "e", "a", "s", "t", "-", "1">>,
       <<"a", "p", "-", "s", "o", "u", "t", "h", "e", "a", "s", "t", "-", "1">>,
       <<"a", "p", "-", "s", "o", "u", "t", "h", "e", "a", "s", "t", "-", "2">>,
       <<"e", "u", "-", "w", "e", "s", "t", "-", "1">>,
       <<"s", "a", "-", "e", "a", "s", "t", "-", "1">>,
       <<"u", "s", "-", "e", "a", "s", "t", "-", "1">>,
       <<"u", "s", "-", "w", "e", "s", "t", "-", "1">>,
       <<"u", "s", "-", "w", "e", "s", "t", "-", "2">> >>

\* ------------------------------------------------------ string operations
\* s.endswith(c) for a one-character c
EndsWith(s, c) == Len(s) > 0 /\ s[Len(s)] = c

\* s.startswith(p)
StartsWith(s, p) == Len(p) <= Len(s) /\ SubSeq(s, 1, Len(p)) = p

\* re.search(p, s) for a pattern p without metacharacters: p occurs in s
Search(p, s) == \E i \in 1..(Len(s) - Len(p) + 1) : SubSeq(s, i, i + Len(p) - 1) = p

\* s.replace(a, b) for one-character a and b
Replace(s, a, b) == [i \in 1..Len(s) |-> IF s[i] = a THEN b ELSE s[i]]

\* s[n:]
DropFirst(s, n) == SubSeq(s, n + 1, Len(s))

\* s.split(sep) for a one-character sep: ''.split(sep) is ['']
RECURSIVE Split(_, _)
Split(s, sep) ==
    IF \A i \in 1..Len(s) : s[i] # sep
    THEN <<s>>
    ELSE LET i == CHOOSE k \in 1..Len(s) : s[k] = sep /\ \A j \in 1..(k - 1) : s[j] # sep
         IN  <<SubSeq(s, 1, i - 1)>> \o Split(SubSeq(s, i + 1, Len(s)), sep)

\* sep.join(parts), sep a string
RECURSIVE Join(_, _)
Join(parts, sep) ==
    IF Len(parts) = 0 THEN <<>>
    ELSE IF Len(parts) = 1 THEN parts[1]
    ELSE parts[1] \o sep \o Join(Tail(parts), sep)

\* d[k] = v on a dict d
Put(d, k, v) == [x \in DOMAIN d \cup {k} |-> IF x = k THEN v ELSE d[x]]

\* {}
EmptyDict == [x \in {} |-> None]

\* ------------------------------------------------- the metadata service
\* The instance metadata service the crawl talks to: for each tree, the
\* listing body of every directory URI and the possible contents of every leaf
\* URI.  The base answers with and without its trailing separator.
Zones ==
    { <<"e", "u", "-", "w", "e", "s", "t", "-", "1", "a">>,
      <<"u", "s", "-", "e", "a", "s", "t", "-", "1", "a">>,
      <<"x", "x", "-", "u", "n", "k", "n", "o", "w", "n", "-", "9", "z">> }
body_user_data == <<"#", "!", "s", "h">>
body_public_key == <<"s", "s", "h", "-", "r", "s", "a", " ", "K">>

\* {'instance-id': 'i-1234', 'placement/': {'availability-zone': <zone>}}
TreeE2E_dirs ==
    (<<"h", "t", "t", "p", ":", "/", "/", "h", "o", "s", "t", "/", "m", "e", "t", "a", "/">> :> <<"i", "n", "s", "t", "a", "n", "c", "e", "-", "i", "d", "\n", "p", "l", "a", "c", "e", "m", "e", "n", "t", "/">>)
    @@ (<<"h", "t", "t", "p", ":", "/", "/", "h", "o", "s", "t", "/", "m", "e", "t", "a">> :> <<"i", "n", "s", "t", "a", "n", "c", "e", "-", "i", "d", "\n", "p", "l", "a", "c", "e", "m", "e", "n", "t", "/">>)
    @@ (<<"h", "t", "t", "p", ":", "/", "/", "h", "o", "s", "t", "/", "m", "e", "t", "a", "/", "p", "l", "a", "c", "e", "m", "e", "n", "t", "/">> :> <<"a", "v", "a", "i", "l", "a", "b", "i", "l", "i", "t", "y", "-", "z", "o", "n", "e">>)
TreeE2E_leaves ==
    (<<"h", "t", "t", "p", ":", "/", "/", "h", "o", "s", "t", "/", "m", "e", "t", "a", "/", "i", "n", "s", "t", "a", "n", "c", "e", "-", "i", "d">> :> {<<"i", "-", "1", "2", "3", "4">>})
    @@ (<<"h", "t", "t", "p", ":", "/", "/", "h", "o", "s", "t", "/", "m", "e", "t", "a", "/", "p", "l", "a", "c", "e", "m", "e", "n", "t", "/", "a", "v", "a", "i", "l", "a", "b", "i", "l", "i", "t", "y", "-", "z", "o", "n", "e">> :> Zones)

\* {'security-groups': 'sg-a\nsg-b\nsg-c', 'public-keys/': {'0/': {'openssh-key': 'ssh-rsa K'}},
\*  'mac:1': '0e'}; the listing of the base ends with a newline
TreeKeys_dirs ==
    (<<"h", "t", "t", "p", ":", "/", "/", "h", "o", "s", "t", "/", "m", "e", "t", "a", "/">> :> <<"s", "e", "c", "u", "r", "i", "t", "y", "-", "g", "r", "o", "u", "p", "s", "\n", "p", "u", "b", "l", "i", "c", "-", "k", "e", "y", "s", "/", "\n", "m", "a", "c", ":", "1", "\n">>)
    @@ (<<"h", "t", "t", "p", ":", "/", "/", "h", "o", "s", "t", "/", "m", "e", "t", "a">> :> <<"s", "e", "c", "u", "r", "i", "t", "y", "-", "g", "r", "o", "u", "p", "s", "\n", "p", "u", "b", "l", "i", "c", "-", "k", "e", "y", "s", "/", "\n", "m", "a", "c", ":", "1", "\n">>)
    @@ (<<"h", "t", "t", "p", ":", "/", "/", "h", "o", "s", "t", "/", "m", "e", "t", "a", "/", "p", "u", "b", "l", "i", "c", "-", "k", "e", "y", "s", "/">> :> <<"0", "/">>)
    @@ (<<"h", "t", "t", "p", ":", "/", "/", "h", "o", "s", "t", "/", "m", "e", "t", "a", "/", "p", "u", "b", "l", "i", "c", "-", "k", "e", "y", "s", "/", "0", "/">> :> <<"o", "p", "e", "n", "s", "s", "h", "-", "k", "e", "y">>)
TreeKeys_leaves ==
    (<<"h", "t", "t", "p", ":", "/", "/", "h", "o", "s", "t", "/", "m", "e", "t", "a", "/", "s", "e", "c", "u", "r", "i", "t", "y", "-", "g", "r", "o", "u", "p", "s">> :> {<<"s", "g", "-", "a", "\n", "s", "g", "-", "b", "\n", "s", "g", "-", "c">>})
    @@ (<<"h", "t", "t", "p", ":", "/", "/", "h", "o", "s", "t", "/", "m", "e", "t", "a", "/", "p", "u", "b", "l", "i", "c", "-", "k", "e", "y", "s", "/", "0", "/", "o", "p", "e", "n", "s", "s", "h", "-", "k", "e", "y">> :> {<<"s", "s", "h", "-", "r", "s", "a", " ", "K">>})
    @@ (<<"h", "t", "t", "p", ":", "/", "/", "h", "o", "s", "t", "/", "m", "e", "t", "a", "/", "m", "a", "c", ":", "1">> :> {<<"0", "e">>})

\* The depth of the deep tree: how many directories d/ nest below the base.
MaxDepth == 2

\* 'd/' repeated n times
RECURSIVE Nest(_)
Nest(n) == IF n = 0 THEN <<>> ELSE <<"d", "/">> \o Nest(n - 1)

\* The innermost directory of the deep tree.
DeepBottom == ec2_metadata_uri \o Nest(MaxDepth)

\* {'d/': {'d/': ... {'public-keys/': {'0/': {'k': 'x'}},
\*                    'security-groups': 'default\nweb'}}, 'user-data': 't'}
TreeDeep_dirs ==
    LET top == <<"d", "/", "\n", "u", "s", "e", "r", "-", "d", "a", "t", "a">>
        bottom == <<"p", "u", "b", "l", "i", "c", "-", "k", "e", "y", "s", "/", "\n", "s", "e", "c", "u", "r", "i", "t", "y", "-", "g", "r", "o", "u", "p", "s">>
        nested == [u \in {ec2_metadata_uri \o Nest(n) : n \in 1..MaxDepth} |->
                     IF u = DeepBottom THEN bottom ELSE <<"d", "/">>]
    IN  (ec2_metadata_uri :> top) @@ (uri_meta_noslash :> top) @@ nested
        @@ (DeepBottom \o <<"p", "u", "b", "l", "i", "c", "-", "k", "e", "y", "s", "/">> :> <<"0", "/">>)
        @@ (DeepBottom \o <<"p", "u", "b", "l", "i", "c", "-", "k", "e", "y", "s", "/", "0", "/">> :> <<"k">>)
TreeDeep_leaves ==
    (DeepBottom \o <<"p", "u", "b", "l", "i", "c", "-", "k", "e", "y", "s", "/", "0", "/", "k">> :> {<<"x">>})
    @@ (DeepBottom \o f_security_groups :> {<<"d", "e", "f", "a", "u", "l", "t", "\n", "w", "e", "b">>})
    @@ (ec2_metadata_uri \o f_user_data :> {<<"t">>})

\* {'x': '1', 'd/': {'y': '2'}}, served with repeated listings: the base
\* names x and d/ twice each, and d/ names y twice.
TreeDup_dirs ==
    (ec2_metadata_uri :> <<"x", "\n", "d", "/", "\n", "x", "\n", "d", "/">>)
    @@ (uri_meta_noslash :> <<"x", "\n", "d", "/", "\n", "x", "\n", "d", "/">>)
    @@ (ec2_metadata_uri \o <<"d", "/">> :> <<"y", "\n", "y">>)
TreeDup_leaves ==
    (ec2_metadata_uri \o <<"x">> :> {<<"1">>})
    @@ (ec2_metadata_uri \o <<"d", "/", "y">> :> {<<"2">>})

\* {'a-b': '1', 'a:b': '2'}: two leaves whose names fix_invalid_varnames
\* rewrites to the same name.
TreeClash_dirs ==
    (ec2_metadata_uri :> <<"a", "-", "b", "\n", "a", ":", "b">>)
    @@ (uri_meta_noslash :> <<"a", "-", "b", "\n", "a", ":", "b">>)
TreeClash_leaves ==
    (ec2_metadata_uri \o <<"a", "-", "b">> :> {<<"1">>})
    @@ (ec2_metadata_uri \o <<"a", ":", "b">> :> {<<"2">>})

\* The depth of calls at which the interpreter refuses a further call
\* (sys.getrecursionlimit(), 1000 by default), scaled down.
RecursionLimit == 8

\* A service whose listings are cyclic: every directory, at every depth,
\* names the sub-directory d/ again.
TreeCyclic_dirs ==
    [u \in {ec2_metadata_uri \o Nest(n) : n \in 0..RecursionLimit} \cup {uri_meta_noslash}
       |-> <<"d", "/">>]
TreeCyclic_leaves == EmptyDict

Trees == {"e2e", "keys", "deep", "dup", "cyclic", "clash"}
Dirs(t) ==
    CASE t = "e2e" -> TreeE2E_dirs [] t = "keys" -> TreeKeys_dirs [] t = "deep" -> TreeDeep_dirs
      [] t = "dup" -> TreeDup_dirs [] t = "cyclic" -> TreeCyclic_dirs
      [] t = "clash" -> TreeClash_dirs
Leaves(t) ==
    CASE t = "e2e" -> TreeE2E_leaves [] t = "keys" -> TreeKeys_leaves [] t = "deep" -> TreeDeep_leaves
      [] t = "dup" -> TreeDup_leaves [] t = "cyclic" -> TreeCyclic_leaves
      [] t = "clash" -> TreeClash_leaves

\* The bodies a successful GET of uri can carry.
Service(t, uri) ==
    IF uri = ec2_userdata_uri THEN {body_user_data}
    ELSE IF uri = ec2_sshdata_uri THEN {body_public_key}
    ELSE IF uri \in DOMAIN Dirs(t) THEN {Dirs(t)[uri]}
    ELSE IF uri \in DOMAIN Leaves(t) THEN Leaves(t)[uri]
    ELSE {}

\* _fetch(url): the body read from urlopen(url), or None on HTTPError/URLError.
\* Any GET may fail; a URI the service knows may also answer with an empty
\* body; a URI it does not know fails.
_fetch(t, url) ==
    {None} \cup (IF Service(t, url) = {} THEN {} ELSE Service(t, url) \cup {<<>>})

\* ------------------------------------------------------------------ state
VARIABLES
    tree,       \* the metadata service this run talks to
    uri_meta,   \* self.uri_meta
    _data,      \* self._data: the raw table, URI -> content
    stack,      \* the active calls of fetch(), innermost last
    data,       \* the flat table run() builds and returns
    pc,         \* the position of run()
    log,        \* every GET issued so far: its URI, its answer and its purpose
    \* ec2_group.py, main()
    module,     \* module.check_mode and module.params: state, description, rules
    ec2,        \* what the connection reports: the group found, instances using it
    calls,      \* the mutating calls made on the connection and the group so far
    group,      \* the local group: <<>> for None, <<g>> for a group object
    groupRules, \* the lookup of the rules on the group, ruleId -> rule
    g_left,     \* the entries of groupRules the final loop has not visited yet
    changed,    \* the local changed
    g_i,        \* the position of the loop over rules
    g_pc,       \* the position of main()
    g_exit,     \* how main() ended: "exit_json" or "fail_json"
    \* hostname.py, main()
    strategy,   \* the strategy class of the platform
    h_name,     \* module.params['name']
    kernel,     \* the host name the kernel holds (what the hostname command prints)
    hfile,      \* the permanent store: the lines of the file, or the static name
    current_name,   \* the local current_name
    permanent_name, \* the local permanent_name
    h_changed,  \* the local changed
    h_calls,    \* the setters main() called in this run
    h_pc,       \* the position of main()
    h_run,      \* which run of the module this is
    h_first     \* what the run before this one reported, <<>> in the first run

facts_vars == <<tree, uri_meta, _data, stack, data, pc, log>>
group_vars == <<module, ec2, calls, group, groupRules, g_left, changed, g_i, g_pc, g_exit>>
host_vars == <<strategy, h_name, kernel, hfile, current_name, permanent_name, h_changed, h_calls, h_pc, h_run, h_first>>
vars == <<facts_vars, group_vars, host_vars>>

\* The state of a module that is not running.
FactsIdle ==
    /\ tree = "e2e" /\ uri_meta = <<>> /\ _data = <<>> /\ stack = <<>>
    /\ data = <<>> /\ pc = "idle" /\ log = <<>>
GroupIdle ==
    /\ module = <<>> /\ ec2 = <<>> /\ calls = <<>> /\ group = <<>> /\ groupRules = <<>>
    /\ g_left = {} /\ changed = FALSE /\ g_i = 0 /\ g_pc = "idle" /\ g_exit = ""
HostIdle ==
    /\ strategy = "" /\ h_name = <<>> /\ kernel = <<>> /\ hfile = <<>>
    /\ current_name = <<>> /\ permanent_name = <<>>
    /\ h_changed = FALSE /\ h_calls = {} /\ h_pc = "idle" /\ h_run = 0 /\ h_first = <<>>

\* One active call of fetch(uri, recurse): at "get" it is about to GET the
\* listing; at "loop" it is at the top of the loop body for subfields[i]; at
\* "leaf" the recursive call for subfields[i] has been made.
Frame(uri, recurse) ==
    [uri |-> uri, recurse |-> recurse, at |-> "get", subfields |-> <<>>, i |-> 1]

Top == stack[Len(stack)]
Pop == SubSeq(stack, 1, Len(stack) - 1)
SetTop(f) == [stack EXCEPT ![Len(stack)] = f]
Logged(uri, resp, kind) == Append(log, [uri |-> uri, resp |-> resp, kind |-> kind])

\* __init__: the URIs default to the class attributes; _data starts empty.
Init ==
    /\ tree \in Trees
    /\ uri_meta \in {ec2_metadata_uri, uri_meta_noslash}
    /\ _data = EmptyDict
    /\ stack = <<>>
    /\ data = EmptyDict
    /\ pc = "start"
    /\ log = <<>>
    /\ GroupIdle /\ HostIdle

\* ------------------------------------------------------------------ fetch
\* if uri.endswith('/'): new_uri = uri + field  else: new_uri = uri + '/' + field
NewUri(uri, field) ==
    IF EndsWith(uri, "/") THEN uri \o field ELSE uri \o <<"/">> \o field

\* sg_fields with the join left out: the body is stored as it came.
sg_fields_Raw(content) == content

\* ",".join(content.split('\n'))
sg_fields(content) == Join(Split(content, "\n"), <<",">>)

\* Record with a guard the code does not have: a leaf whose content is None or
\* empty is left out of the table.
Record_SkipMissing(d, new_uri, field, content) ==
    IF content = None \/ content = <<>>
    THEN d
    ELSE Put(d, new_uri, IF field = f_security_groups THEN sg_fields(content) ELSE content)

\* What fetch stores for a leaf: the comma-joined lines for a field named
\* security-groups, the content itself for any other field (None included).
Record(d, new_uri, field, content) ==
    IF field = f_security_groups
    THEN Put(d, new_uri, sg_fields(content))
    ELSE Put(d, new_uri, content)

\* not raw_subfields, with the empty body taken for a listing.
Falsy_NoneOnly(body) == body = None

\* not raw_subfields: None and the empty string are false
Falsy(body) == body = None \/ body = <<>>

\* The guard with its first test left out: a URI already recorded is fetched
\* again.
ShouldFetch_Refetch(d, new_uri) == ~EndsWith(new_uri, "/")

\* The guard with its second test left out.
ShouldFetch_AnyUri(d, new_uri) == new_uri \notin DOMAIN d

\* new_uri not in self._data and not new_uri.endswith('/')
ShouldFetch(d, new_uri) == new_uri \notin DOMAIN d /\ ~EndsWith(new_uri, "/")

\* run() calls self.fetch(self.uri_meta)
RunFetch ==
    /\ pc = "start"
    /\ stack' = <<Frame(uri_meta, TRUE)>>
    /\ pc' = "crawl"
    /\ UNCHANGED <<tree, uri_meta, _data, data, log>>
    /\ UNCHANGED <<group_vars, host_vars>>

\* raw_subfields = self._fetch(uri); if not raw_subfields: return;
\* subfields = raw_subfields.split('\n')
FetchListing ==
    /\ pc = "crawl" /\ stack # <<>> /\ Top.at = "get"
    /\ \E raw_subfields \in _fetch(tree, Top.uri) :
         /\ log' = Logged(Top.uri, raw_subfields, "listing")
         /\ IF Falsy(raw_subfields)
            THEN stack' = Pop
            ELSE stack' = SetTop([Top EXCEPT !.at = "loop",
                                             !.subfields = Split(raw_subfields, "\n"),
                                             !.i = 1])
    /\ UNCHANGED <<tree, uri_meta, _data, data, pc>>
    /\ UNCHANGED <<group_vars, host_vars>>

Field == Top.subfields[Top.i]
InLoop == pc = "crawl" /\ stack # <<>> /\ Top.at \in {"loop", "leaf"} /\ Top.i <= Len(Top.subfields)
Recurses == Top.at = "loop" /\ EndsWith(Field, "/") /\ Top.recurse

\* FetchRecurse as a deferred call: the sub-directory is queued under the
\* active calls and listed only once they have returned.
FetchRecurse_Deferred ==
    /\ InLoop /\ Recurses
    /\ Len(stack) < RecursionLimit
    /\ stack' = <<Frame(Top.uri \o Field, TRUE)>> \o SetTop([Top EXCEPT !.at = "leaf"])
    /\ UNCHANGED <<tree, uri_meta, _data, data, pc, log>>
    /\ UNCHANGED <<group_vars, host_vars>>

\* if field.endswith('/') and recurse: self.fetch(uri + field)
FetchRecurse ==
    /\ InLoop /\ Recurses
    /\ Len(stack) < RecursionLimit
    /\ stack' = Append(SetTop([Top EXCEPT !.at = "leaf"]), Frame(Top.uri \o Field, TRUE))
    /\ UNCHANGED <<tree, uri_meta, _data, data, pc, log>>
    /\ UNCHANGED <<group_vars, host_vars>>

\* The recursive call that exceeds the interpreter's recursion limit raises
\* RuntimeError, which no caller catches, so it leaves every fetch() and run().
FetchOverflow ==
    /\ InLoop /\ Recurses
    /\ Len(stack) >= RecursionLimit
    /\ stack' = <<>>
    /\ pc' = "raised"
    /\ UNCHANGED <<tree, uri_meta, _data, data, log>>
    /\ UNCHANGED <<group_vars, host_vars>>

\* FetchSkip without the step to the next field: the loop stays where it is.
FetchSkip_Stuck ==
    /\ InLoop /\ ~Recurses
    /\ LET new_uri == NewUri(Top.uri, Field)
       IN  ~ShouldFetch(_data, new_uri)
    /\ UNCHANGED vars

\* The rest of the loop body for a field whose new_uri is already in _data or
\* ends with '/': nothing is fetched.
FetchSkip ==
    /\ InLoop /\ ~Recurses
    /\ LET new_uri == NewUri(Top.uri, Field)
       IN  ~ShouldFetch(_data, new_uri)
    /\ stack' = SetTop([Top EXCEPT !.at = "loop", !.i = @ + 1])
    /\ UNCHANGED <<tree, uri_meta, _data, data, pc, log>>
    /\ UNCHANGED <<group_vars, host_vars>>

\* content = self._fetch(new_uri), then the content is recorded.
FetchLeaf ==
    /\ InLoop /\ ~Recurses
    /\ LET new_uri == NewUri(Top.uri, Field)
       IN  /\ ShouldFetch(_data, new_uri)
           /\ \E content \in _fetch(tree, new_uri) :
                /\ ~(Field = f_security_groups /\ content = None)
                /\ log' = Logged(new_uri, content, "leaf")
                /\ _data' = Record(_data, new_uri, Field, content)
    /\ stack' = SetTop([Top EXCEPT !.at = "loop", !.i = @ + 1])
    /\ UNCHANGED <<tree, uri_meta, data, pc>>
    /\ UNCHANGED <<group_vars, host_vars>>

\* content = self._fetch(new_uri) returned None for a field named
\* security-groups: content.split raises AttributeError, which no caller
\* catches, so it leaves every fetch() and run().
FetchLeafRaises ==
    /\ InLoop /\ ~Recurses
    /\ Field = f_security_groups
    /\ LET new_uri == NewUri(Top.uri, Field)
       IN  /\ ShouldFetch(_data, new_uri)
           /\ None \in _fetch(tree, new_uri)
           /\ log' = Logged(new_uri, None, "leaf")
    /\ stack' = <<>>
    /\ pc' = "raised"
    /\ UNCHANGED <<tree, uri_meta, _data, data>>
    /\ UNCHANGED <<group_vars, host_vars>>

\* The loop over subfields is over: fetch returns to its caller.
FetchReturn ==
    /\ pc = "crawl" /\ stack # <<>> /\ Top.at = "loop" /\ Top.i > Len(Top.subfields)
    /\ stack' = Pop
    /\ UNCHANGED <<tree, uri_meta, _data, data, pc, log>>
    /\ UNCHANGED <<group_vars, host_vars>>

\* ------------------------------------------------------------- normalizer
\* A dict that assignments in an unspecified order produce: src maps each key
\* to the values written to it, and the last write, any of them, stays.
RECURSIVE Assignments(_)
Assignments(src) ==
    IF DOMAIN src = {} THEN {EmptyDict}
    ELSE LET k == CHOOSE x \in DOMAIN src : TRUE
             rest == [x \in DOMAIN src \ {k} |-> src[x]]
         IN  {Put(f, k, v) : f \in Assignments(rest), v \in src[k]}

\* self._prefix % new_key, for the new_key _mangle_fields forms from a raw key
MangleKey(key, uri) ==
    LET split_fields == Split(DropFirst(key, Len(uri)), "/")
    IN  IF Len(split_fields) > 1 /\ split_fields[2] # <<>>
        THEN prefix_ \o Join(split_fields, <<"-">>)
        ELSE prefix_ \o Join(split_fields, <<>>)

\* The first loop of _mangle_fields: new_fields[prefix % new_key] = value for
\* every item of fields, in the dict's iteration order.
NewFields(fields, uri) ==
    LET keys == {MangleKey(k, uri) : k \in DOMAIN fields}
    IN  Assignments([nk \in keys |-> {fields[k] : k \in {x \in DOMAIN fields : MangleKey(x, uri) = nk}}])

\* FilterFields with the second loop left out.
FilterFields_KeepAll(new_fields, filter_patterns) == new_fields

\* The second loop of _mangle_fields: every key some pattern matches is popped.
FilterFields(new_fields, filter_patterns) ==
    [k \in {x \in DOMAIN new_fields :
              \A n \in 1..Len(filter_patterns) : ~Search(filter_patterns[n], x)}
       |-> new_fields[k]]

\* filter_patterns=['public-keys-0']
filter_patterns_default == <<pattern_public_keys_0>>

\* _mangle_fields(fields, uri): the dicts it can return
_mangle_fields(fields, uri) ==
    {FilterFields(nf, filter_patterns_default) : nf \in NewFields(fields, uri)}

\* ':' in key or '-' in key
InvalidVarname(key) == \E i \in 1..Len(key) : key[i] \in {":", "-"}

\* NewKey with the replacements mistyped: '-' becomes '_', then ':' becomes '-'.
NewKey_Chained(key) == Replace(Replace(key, "-", "_"), ":", "-")

\* key.replace(':','_').replace('-','_')
NewKey(key) == Replace(Replace(key, ":", "_"), "-", "_")

\* fix_invalid_varnames(data): data[newkey] = value for every item whose key
\* holds ':' or '-'; no key is deleted.  The dicts data can be afterwards.
fix_invalid_varnames(d) ==
    LET bad == {k \in DOMAIN d : InvalidVarname(k)}
        newkeys == {NewKey(k) : k \in bad}
        written == Assignments([nk \in newkeys |-> {d[k] : k \in {x \in bad : NewKey(x) = nk}}])
    IN  {[k \in DOMAIN d \cup newkeys |-> IF k \in newkeys THEN w[k] ELSE d[k]] : w \in written}

\* for r in self.AWS_REGIONS: if zone.startswith(r): region = r; break
RECURSIVE ScanRegions(_, _)
ScanRegions(zone, n) ==
    IF n > Len(AWS_REGIONS) THEN zone
    ELSE IF StartsWith(zone, AWS_REGIONS[n]) THEN AWS_REGIONS[n]
    ELSE ScanRegions(zone, n + 1)

\* Region with zone == r in place of zone.startswith(r).
Region_ExactMatch(zone) ==
    IF \E n \in 1..Len(AWS_REGIONS) : AWS_REGIONS[n] = zone
    THEN AWS_REGIONS[CHOOSE n \in 1..Len(AWS_REGIONS) : AWS_REGIONS[n] = zone]
    ELSE zone

\* region = zone, unless the zone starts with a known region name
Region(zone) == ScanRegions(zone, 1)

\* add_ec2_region without the test of zone against None: the region key is
\* written even when there is no zone.
add_ec2_region_NoGuard(d) ==
    LET zone == IF zone_fact \in DOMAIN d THEN d[zone_fact] ELSE None
    IN  Put(d, region_fact, IF zone # None THEN Region(zone) ELSE None)

\* add_ec2_region(data); data.get(key) is None for a missing key
add_ec2_region(d) ==
    LET zone == IF zone_fact \in DOMAIN d THEN d[zone_fact] ELSE None
    IN  IF zone # None THEN Put(d, region_fact, Region(zone)) ELSE d

\* SetFact with a guard the code does not have: a None value is not stored.
SetFact_SkipNone(d, name, value) ==
    IF value = None THEN d ELSE Put(d, prefix_ \o name, value)

\* SetFact as data.setdefault(key, value): an existing entry is kept.
SetFact_KeepExisting(d, name, value) ==
    IF prefix_ \o name \in DOMAIN d THEN d ELSE Put(d, prefix_ \o name, value)

\* data[self._prefix % name] = value
SetFact(d, name, value) == Put(d, prefix_ \o name, value)

\* -------------------------------------------------------------------- run
\* The statements of run() with the last two exchanged: add_ec2_region before
\* fix_invalid_varnames.
After_RegionBeforeFix(p) ==
    CASE p = "crawl" -> "user" [] p = "user" -> "ssh" [] p = "ssh" -> "region"
      [] p = "region" -> "fix" [] p = "fix" -> "done"

\* The order of the statements of run(): the position after the one at p.
\* "crawl" is fetch and _mangle_fields, "user" and "ssh" the two supplementary
\* facts, "fix" fix_invalid_varnames, "region" add_ec2_region.
After(p) ==
    CASE p = "crawl" -> "user" [] p = "user" -> "ssh" [] p = "ssh" -> "fix"
      [] p = "fix" -> "region" [] p = "region" -> "done"

\* data = self._mangle_fields(self._data, self.uri_meta), once fetch returned
RunMangle ==
    /\ pc = "crawl" /\ stack = <<>>
    /\ data' \in _mangle_fields(_data, uri_meta)
    /\ pc' = After(pc)
    /\ UNCHANGED <<tree, uri_meta, _data, stack, log>>
    /\ UNCHANGED <<group_vars, host_vars>>

\* data[self._prefix % 'user-data'] = self._fetch(self.uri_user)
RunUserData ==
    /\ pc = "user"
    /\ \E body \in _fetch(tree, ec2_userdata_uri) :
         /\ log' = Logged(ec2_userdata_uri, body, "user")
         /\ data' = SetFact(data, f_user_data, body)
    /\ pc' = After(pc)
    /\ UNCHANGED <<tree, uri_meta, _data, stack>>
    /\ UNCHANGED <<group_vars, host_vars>>

\* data[self._prefix % 'public-key'] = self._fetch(self.uri_ssh)
RunPublicKey ==
    /\ pc = "ssh"
    /\ \E body \in _fetch(tree, ec2_sshdata_uri) :
         /\ log' = Logged(ec2_sshdata_uri, body, "ssh")
         /\ data' = SetFact(data, f_public_key, body)
    /\ pc' = After(pc)
    /\ UNCHANGED <<tree, uri_meta, _data, stack>>
    /\ UNCHANGED <<group_vars, host_vars>>

\* self.fix_invalid_varnames(data)
RunFixInvalidVarnames ==
    /\ pc = "fix"
    /\ data' \in fix_invalid_varnames(data)
    /\ pc' = After(pc)
    /\ UNCHANGED <<tree, uri_meta, _data, stack, log>>
    /\ UNCHANGED <<group_vars, host_vars>>

\* self.add_ec2_region(data); return data
RunAddRegion ==
    /\ pc = "region"
    /\ data' = add_ec2_region(data)
    /\ pc' = After(pc)
    /\ UNCHANGED <<tree, uri_meta, _data, stack, log>>
    /\ UNCHANGED <<group_vars, host_vars>>

Next ==
    \/ RunFetch
    \/ FetchListing
    \/ FetchRecurse
    \/ FetchOverflow
    \/ FetchSkip
    \/ FetchLeaf
    \/ FetchLeafRaises
    \/ FetchReturn
    \/ RunMangle
    \/ RunUserData
    \/ RunPublicKey
    \/ RunFixInvalidVarnames
    \/ RunAddRegion

Spec == Init /\ [][Next]_vars

\* The steps of self.fetch(self.uri_meta), the first statement of run().
Crawl ==
    \/ RunFetch \/ FetchListing \/ FetchRecurse \/ FetchOverflow
    \/ FetchSkip \/ FetchLeaf \/ FetchLeafRaises \/ FetchReturn

\* run() is one sequential thread: the interpreter executes the next statement
\* of the crawl as long as there is one, and every GET returns (with a body,
\* an error or the timeout of 10 seconds).
FairSpec == Spec /\ WF_vars(Crawl)

\* ============================================================== ec2_group
\* main() of library/cloud/ec2_group.py.  Values that the code only formats
\* with "%s" (protocols, ports, ids, addresses, None) are modelled by the text
\* the formatting gives, so None is "None" and the port 22 is "22".  A Python
\* reference that may be None is a sequence: <<>> for None, <<x>> for x.

\* A key that a rule of module.params['rules'] does not have.
Missing == "<missing>"

\* A rule as the playbook gives it: proto, from_port, to_port and group_id
\* and/or cidr_ip.
Requested(proto, port, group_id, cidr_ip) ==
    [proto |-> proto, from_port |-> port, to_port |-> port,
     group_id |-> group_id, cidr_ip |-> cidr_ip]

\* The rules a playbook may ask for.
RequestedRules ==
    {Requested("tcp", "22", Missing, "10.0.0.0/8"),
     Requested("tcp", "22", Missing, "0.0.0.0/0"),
     Requested("tcp", "80", Missing, "10.0.0.0/8"),
     Requested("tcp", "22", "sg-2", Missing),
     Requested("all", "22", Missing, "10.0.0.0/8"),
     Requested("tcp", "22", "sg-2", "10.0.0.0/8")}

\* The longest list of rules of a playbook.
MaxRules == 2

RECURSIVE SeqsUpTo(_, _)
\* The sequences over S of length at most n.
SeqsUpTo(S, n) ==
    IF n = 0 THEN {<<>>}
    ELSE LET shorter == SeqsUpTo(S, n - 1)
         IN  shorter \cup {Append(s, x) : s \in {q \in shorter : Len(q) = n - 1}, x \in S}

\* A grant and a rule as boto reports them (boto.ec2.securitygroup): one rule
\* per protocol and port range, with every grant of that range.
Grant(group_id, cidr_ip) == [group_id |-> group_id, cidr_ip |-> cidr_ip]
IPPermissions(ip_protocol, from_port, to_port, grants) ==
    [ip_protocol |-> ip_protocol, from_port |-> from_port, to_port |-> to_port,
     grants |-> grants]

\* The rules the group may have when main() starts.
GroupRuleLists ==
    {<<>>,
     <<IPPermissions("tcp", "22", "22", <<Grant("None", "10.0.0.0/8")>>)>>,
     <<IPPermissions("tcp", "22", "22", <<Grant("None", "10.0.0.0/8"), Grant("None", "0.0.0.0/0")>>)>>,
     <<IPPermissions("tcp", "22", "22", <<Grant("None", "10.0.0.0/8")>>),
       IPPermissions("tcp", "80", "80", <<Grant("None", "10.0.0.0/8")>>)>>,
     <<IPPermissions("tcp", "22", "22", <<Grant("sg-2", "None")>>)>>,
     <<IPPermissions("-1", "None", "None", <<Grant("None", "10.0.0.0/8")>>)>>}

\* "%s-%s-%s-%s-%s-%s" % (prefix, protocol, from_port, to_port, group_id, cidr_ip):
\* the fields are kept apart instead of joined by '-'.
RuleId(prefix, ip_protocol, from_port, to_port, group_id, cidr_ip) ==
    <<prefix, ip_protocol, from_port, to_port, group_id, cidr_ip>>

RECURSIVE AddGrants(_, _, _, _)
\* for grant in rule.grants: dict[ruleId of the grant] = rule
AddGrants(rule, prefix, dict, n) ==
    IF n > Len(rule.grants) THEN dict
    ELSE AddGrants(rule, prefix,
                   Put(dict, RuleId(prefix, rule.ip_protocol, rule.from_port, rule.to_port,
                                    rule.grants[n].group_id, rule.grants[n].cidr_ip), rule),
                   n + 1)

RECURSIVE addRulesToLookup(_, _, _)
\* addRulesToLookup(rules, prefix, dict)
addRulesToLookup(rules, prefix, dict) ==
    IF rules = <<>> THEN dict
    ELSE addRulesToLookup(Tail(rules), prefix, AddGrants(Head(rules), prefix, dict, 1))

\* A dict with no entry whose values are rules.
NoRules == [k \in {} |-> IPPermissions("", "", "", <<>>)]

\* One mutating call on the backend: ec2.create_security_group, group.delete,
\* group.authorize or group.revoke, with the rule it is given.
Call(op, ip_protocol, from_port, to_port, group_id, cidr_ip) ==
    [op |-> op, id |-> RuleId("in", ip_protocol, from_port, to_port, group_id, cidr_ip)]

\* AnsibleModule(...) and the connection: every combination of check mode,
\* state, rules, and of what get_all_security_groups and get_all_instances
\* report.
GroupInit ==
    /\ FactsIdle /\ HostIdle
    /\ module \in [check_mode : BOOLEAN, state : {"present", "absent"},
                   description : {"web"}, rules : SeqsUpTo(RequestedRules, MaxRules)]
    /\ ec2 \in [found : {<<>>} \cup {<<[id |-> "sg-1", description |-> d, rules |-> r]>> :
                                        d \in {"web", "old"}, r \in GroupRuleLists},
                group_in_use : BOOLEAN]
    /\ (ec2.found = <<>> => ~ec2.group_in_use)
    /\ calls = <<>>
    /\ group = <<>>
    /\ groupRules = NoRules
    /\ g_left = {}
    /\ changed = FALSE
    /\ g_i = 1
    /\ g_pc = "find"
    /\ g_exit = ""

\* for curGroup in ec2.get_all_security_groups(): ... group = curGroup
GroupFind ==
    /\ g_pc = "find"
    /\ group' = ec2.found
    /\ g_pc' = "ensure"
    /\ UNCHANGED <<module, ec2, calls, groupRules, g_left, changed, g_i, g_exit>>
    /\ UNCHANGED <<facts_vars, host_vars>>

\* state == 'absent' and group: group.delete(); on an exception fail_json,
\* else group = None, changed = True.  The call is made in check mode as well.
GroupDelete ==
    /\ g_pc = "ensure" /\ module.state = "absent" /\ group # <<>>
    /\ calls' = Append(calls, Call("delete", "", "", "", group[1].id, ""))
    /\ \E deleted \in BOOLEAN :
         IF deleted
         THEN group' = <<>> /\ changed' = TRUE /\ g_pc' = "lookup" /\ g_exit' = g_exit
         ELSE group' = group /\ changed' = changed /\ g_pc' = "end" /\ g_exit' = "fail_json"
    /\ UNCHANGED <<module, ec2, groupRules, g_left, g_i>>
    /\ UNCHANGED <<facts_vars, host_vars>>

\* state == 'absent' and no group: no changes required
GroupAbsentAlready ==
    /\ g_pc = "ensure" /\ module.state = "absent" /\ group = <<>>
    /\ g_pc' = "lookup"
    /\ UNCHANGED <<module, ec2, calls, group, groupRules, g_left, changed, g_i, g_exit>>
    /\ UNCHANGED <<facts_vars, host_vars>>

\* state == 'present' and group: fail_json when the description differs and
\* the group is in use; nothing else is done about the description.
GroupExisting ==
    /\ g_pc = "ensure" /\ module.state = "present" /\ group # <<>>
    /\ IF group[1].description # module.description /\ ec2.group_in_use
       THEN g_pc' = "end" /\ g_exit' = "fail_json"
       ELSE g_pc' = "lookup" /\ g_exit' = g_exit
    /\ UNCHANGED <<module, ec2, calls, group, groupRules, g_left, changed, g_i>>
    /\ UNCHANGED <<facts_vars, host_vars>>

\* state == 'present' and no group: create it unless in check mode;
\* changed = True
GroupCreate ==
    /\ g_pc = "ensure" /\ module.state = "present" /\ group = <<>>
    /\ IF ~module.check_mode
       THEN /\ calls' = Append(calls, Call("create_security_group", "", "", "", "", ""))
            /\ group' = <<[id |-> "sg-new", description |-> module.description, rules |-> <<>>]>>
       ELSE UNCHANGED <<calls, group>>
    /\ changed' = TRUE
    /\ g_pc' = "lookup"
    /\ UNCHANGED <<module, ec2, groupRules, g_left, g_i, g_exit>>
    /\ UNCHANGED <<facts_vars, host_vars>>

\* if group: groupRules = {}; addRulesToLookup(group.rules, 'in', groupRules)
GroupLookup ==
    /\ g_pc = "lookup"
    /\ IF group # <<>>
       THEN /\ groupRules' = addRulesToLookup(group[1].rules, "in", NoRules)
            /\ g_i' = 1
            /\ g_pc' = "rules"
       ELSE /\ g_pc' = "exit"
            /\ UNCHANGED <<groupRules, g_i>>
    /\ UNCHANGED <<module, ec2, calls, group, g_left, changed, g_exit>>
    /\ UNCHANGED <<facts_vars, host_vars>>

\* The ruleId of a rule of the playbook: the grant is group_id or cidr_ip, and
\* proto 'all' becomes -1 with the ports None.
RequestedId(rule) ==
    LET group_id == IF rule.group_id # Missing THEN rule.group_id ELSE "None"
        ip == IF rule.group_id = Missing /\ rule.cidr_ip # Missing THEN rule.cidr_ip ELSE "None"
    IN  IF rule.proto = "all"
        THEN RuleId("in", "-1", "None", "None", group_id, ip)
        ELSE RuleId("in", rule.proto, rule.from_port, rule.to_port, group_id, ip)

\* One pass of 'for rule in rules': fail_json when the rule has group_id and
\* cidr_ip; a rule found in groupRules is taken out of it; any other rule is
\* authorized unless in check mode, and changed = True.
GroupRule ==
    /\ g_pc = "rules" /\ g_i <= Len(module.rules)
    /\ LET rule == module.rules[g_i]
           ruleId == RequestedId(rule)
       IN  IF rule.group_id # Missing /\ rule.cidr_ip # Missing
           THEN /\ g_pc' = "end" /\ g_exit' = "fail_json"
                /\ UNCHANGED <<calls, groupRules, changed, g_i>>
           ELSE IF ruleId \in DOMAIN groupRules
           THEN /\ groupRules' = [k \in DOMAIN groupRules \ {ruleId} |-> groupRules[k]]
                /\ g_i' = g_i + 1
                /\ UNCHANGED <<calls, changed, g_pc, g_exit>>
           ELSE /\ calls' = IF module.check_mode THEN calls
                            ELSE Append(calls, [op |-> "authorize", id |-> ruleId])
                /\ changed' = TRUE
                /\ g_i' = g_i + 1
                /\ UNCHANGED <<groupRules, g_pc, g_exit>>
    /\ UNCHANGED <<module, ec2, group, g_left>>
    /\ UNCHANGED <<facts_vars, host_vars>>

\* The loop over rules is over (or rules is empty): what is left in groupRules
\* is gone through next.
GroupRulesDone ==
    /\ g_pc = "rules" /\ g_i > Len(module.rules)
    /\ g_left' = DOMAIN groupRules
    /\ g_pc' = "revoke"
    /\ UNCHANGED <<module, ec2, calls, group, groupRules, changed, g_i, g_exit>>
    /\ UNCHANGED <<facts_vars, host_vars>>

RECURSIVE RevokeGrants(_, _)
\* for grant in rule.grants: group.revoke(rule.ip_protocol, rule.from_port,
\* rule.to_port, grant.cidr_ip, grantGroup)
RevokeGrants(rule, n) ==
    IF n > Len(rule.grants) THEN <<>>
    ELSE <<Call("revoke", rule.ip_protocol, rule.from_port, rule.to_port,
                rule.grants[n].group_id, rule.grants[n].cidr_ip)>>
         \o RevokeGrants(rule, n + 1)

\* One pass of 'for rule in groupRules.itervalues()', in the order the dict
\* gives: every grant of the rule is revoked unless in check mode, and
\* changed = True.
GroupRevoke ==
    /\ g_pc = "revoke"
    /\ \E k \in g_left :
         /\ calls' = IF module.check_mode THEN calls
                     ELSE calls \o RevokeGrants(groupRules[k], 1)
         /\ changed' = (changed \/ groupRules[k].grants # <<>>)
         /\ g_left' = g_left \ {k}
    /\ UNCHANGED <<module, ec2, group, groupRules, g_i, g_pc, g_exit>>
    /\ UNCHANGED <<facts_vars, host_vars>>

\* The loop over groupRules is over.
GroupRevokeDone ==
    /\ g_pc = "revoke" /\ g_left = {}
    /\ g_pc' = "exit"
    /\ UNCHANGED <<module, ec2, calls, group, groupRules, g_left, changed, g_i, g_exit>>
    /\ UNCHANGED <<facts_vars, host_vars>>

\* module.exit_json(changed=changed, group_id=...)
GroupExit ==
    /\ g_pc = "exit"
    /\ g_exit' = "exit_json"
    /\ g_pc' = "end"
    /\ UNCHANGED <<module, ec2, calls, group, groupRules, g_left, changed, g_i>>
    /\ UNCHANGED <<facts_vars, host_vars>>

GroupNext ==
    \/ GroupFind
    \/ GroupDelete
    \/ GroupAbsentAlready
    \/ GroupExisting
    \/ GroupCreate
    \/ GroupLookup
    \/ GroupRule
    \/ GroupRulesDone
    \/ GroupRevoke
    \/ GroupRevokeDone
    \/ GroupExit

GroupSpec == GroupInit /\ [][GroupNext]_vars

\* =============================================================== hostname
\* main() of library/system/hostname.py with the strategy of the platform.

\* The host names of the model.
HostNames == {<<"w", "e", "b">>, <<"d", "b">>}

\* The answer of a getter that called module.fail_json.
Failed == <<"fail_json">>

\* The file does not exist: open() raises.
NoFile == <<"no file">>

RECURSIVE LStrip(_)
LStrip(s) == IF s # <<>> /\ Head(s) \in {" ", "\n", "\t", "\r"} THEN LStrip(Tail(s)) ELSE s

RECURSIVE RStrip(_)
RStrip(s) ==
    IF s # <<>> /\ s[Len(s)] \in {" ", "\n", "\t", "\r"} THEN RStrip(SubSeq(s, 1, Len(s) - 1)) ELSE s

\* s.strip()
Strip(s) == RStrip(LStrip(s))

\* 'HOSTNAME'
HOSTNAME == <<"H", "O", "S", "T", "N", "A", "M", "E">>

\* "HOSTNAME=%s\n" % name
HostnameLine(n) == HOSTNAME \o <<"=">> \o n \o <<"\n">>

\* 'NETWORKING=yes\n'
NetworkingLine == <<"N", "E", "T", "W", "O", "R", "K", "I", "N", "G", "=", "y", "e", "s", "\n">>

\* What the permanent store may hold when the module starts.  Debian: the text
\* of /etc/hostname, or no file.  RedHat: the lines of /etc/sysconfig/network,
\* with a HOSTNAME line, without one, or with one that has two '='.  Fedora:
\* the static host name hostnamectl reports.
Stores(s) ==
    CASE s = "Debian" -> {n \o <<"\n">> : n \in HostNames} \cup {<<>>, NoFile}
      [] s = "RedHat" -> {<<NetworkingLine, HostnameLine(n)>> : n \in HostNames}
                         \cup {<<HostnameLine(n), NetworkingLine>> : n \in HostNames}
                         \cup {<<NetworkingLine>>,
                               <<HOSTNAME \o <<"=", "a", "=", "b", "\n">>>>}
      [] s = "Fedora" -> HostNames \cup {<<"n", "/", "a">>}

\* GenericStrategy.get_current_hostname and FedoraStrategy.get_current_hostname:
\* the output of the hostname command, stripped.
get_current_hostname(k) == Strip(k \o <<"\n">>)

RECURSIVE FirstHostname(_, _)
\* RedHatStrategy.get_permanent_hostname: the value of the first line that
\* starts with HOSTNAME; None when the loop finds no such line; the unpacking
\* of k, v raises unless the line has exactly one '='.
FirstHostname(lines, n) ==
    IF n > Len(lines) THEN None
    ELSE IF StartsWith(lines[n], HOSTNAME)
         THEN IF Len(Split(lines[n], "=")) = 2 THEN Strip(Split(lines[n], "=")[2]) ELSE Failed
         ELSE FirstHostname(lines, n + 1)

\* get_permanent_hostname of the strategy s on the store f
get_permanent_hostname(s, f) ==
    CASE s = "Debian" -> IF f = NoFile THEN Failed ELSE Strip(f)
      [] s = "RedHat" -> FirstHostname(f, 1)
      [] s = "Fedora" -> f

\* set_permanent_hostname of the strategy s: Debian writes "%s\n" % name,
\* RedHat rewrites every line that starts with HOSTNAME and keeps the others,
\* Fedora sets the pretty and the static name.
set_permanent_hostname(s, f, n) ==
    CASE s = "Debian" -> n \o <<"\n">>
      [] s = "RedHat" -> [i \in DOMAIN f |-> IF StartsWith(f[i], HOSTNAME) THEN HostnameLine(n) ELSE f[i]]
      [] s = "Fedora" -> n

\* The most runs of the module in a row.
MaxRuns == 2

\* hostname = Hostname(module); changed = False; name = module.params['name']
HostInit ==
    /\ FactsIdle /\ GroupIdle
    /\ strategy \in {"Debian", "RedHat", "Fedora"}
    /\ h_name \in HostNames
    /\ kernel \in HostNames
    /\ hfile \in Stores(strategy)
    /\ current_name = <<>>
    /\ permanent_name = <<>>
    /\ h_changed = FALSE
    /\ h_calls = {}
    /\ h_pc = "current"
    /\ h_run = 1
    /\ h_first = <<>>

\* current_name = hostname.get_current_hostname(); if current_name != name:
\* hostname.set_current_hostname(name); changed = True.  Either command may
\* end with rc != 0, which is fail_json.
HostCurrent ==
    /\ h_pc = "current"
    /\ \E rc_get, rc_set \in {0, 1} :
         IF rc_get # 0
         THEN /\ h_pc' = "failed"
              /\ UNCHANGED <<kernel, current_name, h_changed, h_calls>>
         ELSE /\ current_name' = get_current_hostname(kernel)
              /\ IF current_name' # h_name
                 THEN /\ h_calls' = h_calls \cup {"set_current_hostname"}
                      /\ IF rc_set # 0
                         THEN h_pc' = "failed" /\ UNCHANGED <<kernel, h_changed>>
                         ELSE kernel' = h_name /\ h_changed' = TRUE /\ h_pc' = "permanent"
                 ELSE /\ h_pc' = "permanent"
                      /\ UNCHANGED <<kernel, h_changed, h_calls>>
    /\ UNCHANGED <<strategy, h_name, hfile, permanent_name, h_run, h_first>>
    /\ UNCHANGED <<facts_vars, group_vars>>

\* permanent_name = hostname.get_permanent_hostname(); if permanent_name != name:
\* hostname.set_permanent_hostname(name); changed = True
HostPermanent ==
    /\ h_pc = "permanent"
    /\ IF get_permanent_hostname(strategy, hfile) = Failed
       THEN /\ h_pc' = "failed"
            /\ UNCHANGED <<hfile, permanent_name, h_changed, h_calls>>
       ELSE /\ permanent_name' = get_permanent_hostname(strategy, hfile)
            /\ IF permanent_name' # h_name
               THEN /\ hfile' = set_permanent_hostname(strategy, hfile, h_name)
                    /\ h_calls' = h_calls \cup {"set_permanent_hostname"}
                    /\ h_changed' = TRUE
               ELSE UNCHANGED <<hfile, h_calls, h_changed>>
            /\ h_pc' = "exit"
    /\ UNCHANGED <<strategy, h_name, kernel, current_name, h_run, h_first>>
    /\ UNCHANGED <<facts_vars, group_vars>>

\* module.exit_json(changed=changed, name=name)
HostExit ==
    /\ h_pc = "exit"
    /\ h_pc' = "exit_json"
    /\ UNCHANGED <<strategy, h_name, kernel, hfile, current_name, permanent_name,
                   h_changed, h_calls, h_run, h_first>>
    /\ UNCHANGED <<facts_vars, group_vars>>

\* The module is run again with the same name right after a run that ended
\* with exit_json.
HostRerun ==
    /\ h_pc = "exit_json" /\ h_run < MaxRuns
    /\ h_run' = h_run + 1
    /\ h_first' = <<h_changed>>
    /\ current_name' = <<>>
    /\ permanent_name' = <<>>
    /\ h_changed' = FALSE
    /\ h_calls' = {}
    /\ h_pc' = "current"
    /\ UNCHANGED <<strategy, h_name, kernel, hfile>>
    /\ UNCHANGED <<facts_vars, group_vars>>

HostNext ==
    \/ HostCurrent
    \/ HostPermanent
    \/ HostExit
    \/ HostRerun

HostSpec == HostInit /\ [][HostNext]_vars

\* ================================================================ claims
\* The name a raw key has below the base URI, with every separator turned
\* into a hyphen.
HyphenName(u) == Replace(DropFirst(u, Len(uri_meta)), "/", "-")

\* The raw key falls under the exclusion pattern.
Excluded(u) == Search(pattern_public_keys_0, HyphenName(u))

\* The last path segment of a URI: the name of the child it was listed under.
LastSegment(u) == Split(u, "/")[Len(Split(u, "/"))]

\* Every GET issued so far was answered with a non-empty body.
AllSucceeded == \A n \in 1..Len(log) : log[n].resp # None /\ log[n].resp # <<>>

\* The GETs fetch() issued for leaves.
LeafGets == {n \in 1..Len(log) : log[n].kind = "leaf"}

\* C1 (as claimed): every key of the mapping run() returns contains no colon
\* and no hyphen.
C1_KeySafety ==
    pc = "done" => \A k \in DOMAIN data : \A i \in 1..Len(k) : k[i] \notin {":", "-"}

\* C2 (as claimed): whatever the GETs answer, run() never raises.
C2_NeverRaises == pc # "raised"

\* C3 (as claimed): every key of the raw table maps to non-empty string
\* content; a failed or empty GET leaves the key out.
C3_RawContentNonEmpty ==
    \A u \in DOMAIN _data : _data[u] # None /\ _data[u] # <<>>

\* C3 (amended): at every point of a crawl the keys of the raw table are
\* exactly the leaf URIs fetched so far (but for a security-groups leaf whose
\* GET failed, where the crawl raised); a leaf whose GET failed is recorded
\* with None and a leaf whose GET returned an empty body with the empty
\* string: neither is left out.
C3_RawRecordsEveryFetchedLeaf ==
    /\ \A u \in DOMAIN _data : \E n \in LeafGets : log[n].uri = u
    /\ \A n \in LeafGets :
         \/ LastSegment(log[n].uri) = f_security_groups /\ log[n].resp = None /\ pc = "raised"
         \/ /\ log[n].uri \in DOMAIN _data
            /\ log[n].resp = None => _data[log[n].uri] = None
            /\ log[n].resp = <<>> => _data[log[n].uri] = <<>>

\* C3 witness: the raw table holds a leaf recorded with None and a leaf
\* recorded with the empty string.
C3_Witness ==
    \E u, v \in DOMAIN _data : _data[u] = None /\ _data[v] = <<>>

\* C4 (as claimed): with every fetch succeeding, the number of keys run()
\* returns is the number of leaves outside the excluded subtree plus two.
C4_KeyCount ==
    (pc = "done" /\ AllSucceeded /\ uri_meta = ec2_metadata_uri)
        => Cardinality(DOMAIN data)
             = Cardinality({u \in DOMAIN Leaves(tree) : ~Excluded(u)}) + 2

\* The five entries of the end-to-end scenario.
E2E_Expected ==
    (<<"a", "n", "s", "i", "b", "l", "e", "_", "e", "c", "2", "_", "i", "n", "s", "t", "a", "n", "c", "e", "_", "i", "d">> :> <<"i", "-", "1", "2", "3", "4">>)
    @@ (zone_fact :> <<"e", "u", "-", "w", "e", "s", "t", "-", "1", "a">>)
    @@ (region_fact :> <<"e", "u", "-", "w", "e", "s", "t", "-", "1">>)
    @@ (<<"a", "n", "s", "i", "b", "l", "e", "_", "e", "c", "2", "_", "u", "s", "e", "r", "_", "d", "a", "t", "a">> :> body_user_data)
    @@ (<<"a", "n", "s", "i", "b", "l", "e", "_", "e", "c", "2", "_", "p", "u", "b", "l", "i", "c", "_", "k", "e", "y">> :> body_public_key)

\* C5 (as claimed): for the tree {instance-id, placement/availability-zone}
\* with every GET succeeding and the zone eu-west-1a, run() returns exactly the
\* five entries instance_id, placement_availability_zone, placement_region,
\* user_data and public_key.
C5_EndToEnd ==
    (/\ pc = "done" /\ tree = "e2e" /\ uri_meta = ec2_metadata_uri /\ AllSucceeded
     /\ \E n \in LeafGets : log[n].resp = <<"e", "u", "-", "w", "e", "s", "t", "-", "1", "a">>)
        => data = E2E_Expected

\* C6: no key of the mapping run() returns is the hyphenated or the
\* underscored name of a raw key under the exclusion pattern, at any depth.
C6_Filtering ==
    pc = "done" =>
        \A u \in DOMAIN _data :
            Excluded(u) => /\ prefix_ \o HyphenName(u) \notin DOMAIN data
                           /\ NewKey(prefix_ \o HyphenName(u)) \notin DOMAIN data

\* C6 witness: run() returned after the crawl recorded content for an excluded
\* key at least four levels below the base.
C6_Witness ==
    /\ pc = "done"
    /\ \E u \in DOMAIN _data :
         /\ Excluded(u) /\ _data[u] # None
         /\ Len(Split(DropFirst(u, Len(uri_meta)), "/")) >= 4

\* C7: the raw table records, for a child named security-groups, the lines of
\* the GET's body with every newline turned into a comma, and for every other
\* leaf the GET's answer unchanged.
C7_SecurityGroupsJoined ==
    \A n \in LeafGets :
        LET u == log[n].uri
            resp == log[n].resp
        IN  ~(LastSegment(u) = f_security_groups /\ resp = None) =>
                /\ u \in DOMAIN _data
                /\ _data[u] = IF LastSegment(u) = f_security_groups
                              THEN Replace(resp, "\n", ",")
                              ELSE resp

\* C7 witness: a security-groups leaf below a sub-directory whose body had
\* several lines is recorded with commas.
C7_Witness ==
    \E n \in LeafGets :
        /\ LastSegment(log[n].uri) = f_security_groups
        /\ Search(<<"\n">>, log[n].resp)
        /\ Len(Split(DropFirst(log[n].uri, Len(uri_meta)), "/")) >= 2
        /\ log[n].uri \in DOMAIN _data
        /\ Search(<<",">>, _data[log[n].uri])

\* The entries of AWS_REGIONS the zone starts with.
Matching(zone) == {n \in 1..Len(AWS_REGIONS) : StartsWith(zone, AWS_REGIONS[n])}

\* C8: when the zone fact is present, the region fact is the first entry of
\* AWS_REGIONS that is a prefix of the zone, and the zone itself when none is.
C8_RegionInference ==
    (pc = "done" /\ zone_fact \in DOMAIN data /\ data[zone_fact] # None) =>
        /\ region_fact \in DOMAIN data
        /\ data[region_fact] =
             IF Matching(data[zone_fact]) = {}
             THEN data[zone_fact]
             ELSE AWS_REGIONS[CHOOSE n \in Matching(data[zone_fact]) :
                                \A m \in Matching(data[zone_fact]) : n <= m]

\* C8 witness: run() returned a region that is a known region and a proper
\* prefix of the zone.
C8_Witness ==
    /\ pc = "done" /\ zone_fact \in DOMAIN data /\ region_fact \in DOMAIN data
    /\ Matching(data[zone_fact]) # {}
    /\ data[region_fact] # data[zone_fact]

\* C8, second case reached: the zone starts with no known region.
C8_WitnessUnknownZone ==
    /\ pc = "done" /\ zone_fact \in DOMAIN data /\ region_fact \in DOMAIN data
    /\ data[zone_fact] # None /\ data[zone_fact] # <<>>
    /\ Matching(data[zone_fact]) = {}

\* C9: add_ec2_region changes no entry but the region's, and changes nothing
\* at all when the table has no zone key.
C9_RegionFrame ==
    [][pc = "region" =>
          /\ DOMAIN data' \subseteq DOMAIN data \cup {region_fact}
          /\ \A k \in DOMAIN data : k # region_fact => k \in DOMAIN data' /\ data'[k] = data[k]
          /\ zone_fact \notin DOMAIN data => data' = data]_vars

\* C9 witness: add_ec2_region has run on a non-empty table without a zone key
\* and the table has no region key.
C9_Witness ==
    /\ pc = "done" /\ DOMAIN data # {}
    /\ zone_fact \notin DOMAIN data /\ region_fact \notin DOMAIN data

\* C10: the mapping run() returns holds the user-data fact and the public-key
\* fact, under the key run() writes and under its sanitized name; each was
\* obtained by one GET of its endpoint, the last two GETs of the run, and holds
\* that GET's answer.
C10_Supplementary ==
    pc = "done" =>
        LET n == Len(log)
        IN  /\ n >= 2
            /\ log[n - 1].uri = ec2_userdata_uri /\ log[n].uri = ec2_sshdata_uri
            /\ \A m \in 1..(n - 2) : log[m].kind \in {"listing", "leaf"}
            /\ \A m \in 1..n : ~(StartsWith(log[m].uri, ec2_userdata_uri)
                                  /\ log[m].uri # ec2_userdata_uri)
            /\ {prefix_ \o f_user_data, prefix_ \o f_public_key,
                NewKey(prefix_ \o f_user_data), NewKey(prefix_ \o f_public_key)}
                   \subseteq DOMAIN data
            /\ data[prefix_ \o f_user_data] = log[n - 1].resp
            /\ data[prefix_ \o f_public_key] = log[n].resp

\* C10 witness: run() returned the body of the user-data endpoint although the
\* crawl had recorded a leaf of the same name with another content.
C10_Witness ==
    /\ pc = "done"
    /\ \E u \in DOMAIN _data :
         /\ MangleKey(u, uri_meta) = prefix_ \o f_user_data
         /\ _data[u] # None /\ _data[u] # <<>>
         /\ data[prefix_ \o f_user_data] = body_user_data
         /\ _data[u] # body_user_data

\* Every GET issued so far failed.
AllFailed == \A n \in 1..Len(log) : log[n].resp = None

\* C11 (as claimed): when every GET fails from the first request on, the raw
\* table stays empty and the flat table run() returns is empty.
C11_UnreachableEmptyFlat ==
    (pc = "done" /\ AllFailed) => _data = EmptyDict /\ data = EmptyDict

\* C11 (amended): when every GET fails from the first request on, the raw
\* table stays empty and the flat table run() returns holds no fact of the
\* tree: its entries are the user-data and the public-key fact, under the name
\* run() writes and under the sanitized name, each with the value None.
C11_UnreachableOnlySupplementary ==
    AllFailed =>
        /\ _data = EmptyDict
        /\ pc = "done" =>
             /\ DOMAIN data = {prefix_ \o f_user_data, prefix_ \o f_public_key,
                               NewKey(prefix_ \o f_user_data), NewKey(prefix_ \o f_public_key)}
             /\ \A k \in DOMAIN data : data[k] = None

\* C11 witness: run() returned after three GETs, the listing of the base and
\* the two endpoints, all failed.
C11_Witness == pc = "done" /\ AllFailed /\ Len(log) = 3

\* The names a listing body holds for leaves: its non-empty lines that do not
\* end with the separator.
LeafNames(body) ==
    {f \in {Split(body, "\n")[j] : j \in 1..Len(Split(body, "\n"))} :
        f # <<>> /\ ~EndsWith(f, "/")}

\* The GETs fetch() issued for listings that were answered with a listing.
GoodListings ==
    {n \in 1..Len(log) : log[n].kind = "listing" /\ log[n].resp # None /\ log[n].resp # <<>>}

\* C12 (as claimed): no failed GET aborts the crawl or hides another node:
\* when the crawl has ended it has not raised, every leaf named by a listing
\* that was fetched has been requested, and every such leaf whose GET
\* succeeded is in the raw table.
C12_FailureIsolation ==
    pc \notin {"start", "crawl"} =>
        /\ pc # "raised"
        /\ \A n \in GoodListings : \A f \in LeafNames(log[n].resp) :
             LET u == NewUri(log[n].uri, f)
             IN  \E m \in LeafGets :
                    /\ log[m].uri = u
                    /\ log[m].resp # None => u \in DOMAIN _data /\ _data[u] # None

\* The GETs of the crawl: those fetch() issued.
CrawlGets == {n \in 1..Len(log) : log[n].kind \in {"listing", "leaf"}}

\* C13 (as claimed): during one crawl no URI is requested more than once
\* (stated for the base URI that ends with the separator).
C13_NoUriTwice ==
    uri_meta = ec2_metadata_uri =>
        \A n, m \in CrawlGets : log[n].uri = log[m].uri => n = m

\* C14 (as claimed): the crawl terminates on cyclic listings, the guard
\* stopping the recursion: the crawl of the service whose every listing names
\* d/ again does not run into the interpreter's recursion limit.
C14_CyclicCrawlReturns == tree = "cyclic" => pc # "raised"

\* The parent URI and the child name joined by exactly one separator.
JoinOne(parent, child) ==
    (IF EndsWith(parent, "/") THEN SubSeq(parent, 1, Len(parent) - 1) ELSE parent)
        \o <<"/">> \o child

\* C15 (as claimed): every URI the crawl requests below the base is the URI
\* of a fetched listing and one of the names in it, joined by exactly one
\* separator.
C15_ExactlyOneSeparator ==
    \A n \in CrawlGets :
        n > 1 => \E m \in GoodListings :
                    /\ m < n
                    /\ \E j \in 1..Len(Split(log[m].resp, "\n")) :
                         log[n].uri = JoinOne(log[m].uri, Split(log[m].resp, "\n")[j])

\* C16: a call of fetch whose listing GET fails or returns an empty body
\* returns at once: the raw table is unchanged, the call is gone from the
\* stack without a further request, and run() goes on (nothing is raised).
C16_FailedListingNoOp ==
    [][(/\ Len(log') = Len(log) + 1
        /\ log'[Len(log')].kind = "listing"
        /\ log'[Len(log')].resp = None \/ log'[Len(log')].resp = <<>>)
          => /\ _data' = _data
             /\ stack' = SubSeq(stack, 1, Len(stack) - 1)
             /\ pc' = pc]_vars

\* C16 witness: a nested call of fetch met a failed listing GET and another
\* an empty body, and run() returned.
C16_Witness ==
    /\ pc = "done"
    /\ \E n, m \in 2..Len(log) :
         /\ log[n].kind = "listing" /\ log[n].resp = None
         /\ log[m].kind = "listing" /\ log[m].resp = <<>>

\* C17: no key of the raw table ends with the separator.
C17_NoDirectoryKeys == \A u \in DOMAIN _data : ~EndsWith(u, "/")

\* C17 witness: run() returned with a non-empty raw table after a listing that
\* names a sub-directory and ends with a newline (an empty last name).
C17_Witness ==
    /\ pc = "done" /\ DOMAIN _data # {}
    /\ \E n \in GoodListings :
         /\ EndsWith(log[n].resp, "\n")
         /\ \E j \in 1..Len(Split(log[n].resp, "\n")) : EndsWith(Split(log[n].resp, "\n")[j], "/")

\* No two keys of d that hold ':' or '-' are rewritten to the same name.
NoFixClash(d) ==
    \A k1, k2 \in {k \in DOMAIN d : InvalidVarname(k)} : NewKey(k1) = NewKey(k2) => k1 = k2

\* No two keys of the raw table d form the same fact name.
NoMangleClash(d) ==
    \A k1, k2 \in DOMAIN d : MangleKey(k1, uri_meta) = MangleKey(k2, uri_meta) => k1 = k2

Segments(u) == SelectSeq(Split(DropFirst(u, Len(uri_meta)), "/"), LAMBDA x : x # <<>>)

\* The fact name the claim gives a raw key: the segments joined with hyphens
\* when more than one is non-empty, the single segment otherwise.
ClaimedName(u) ==
    prefix_ \o (IF Len(Segments(u)) > 1 THEN Join(Segments(u), <<"-">>)
                ELSE IF Len(Segments(u)) = 1 THEN Segments(u)[1] ELSE <<>>)

\* C19 (as claimed): right after _mangle_fields, every raw key outside the
\* exclusion pattern has its value under the prefix plus its non-empty
\* segments joined with hyphens.
C19_KeyFormation ==
    pc = "user" =>
        \A u \in DOMAIN _data :
            ~Excluded(u) => ClaimedName(u) \in DOMAIN data /\ data[ClaimedName(u)] = _data[u]

\* 'placement/availability-zone'
zone_path == <<"p", "l", "a", "c", "e", "m", "e", "n", "t", "/", "a", "v", "a", "i", "l", "a", "b", "i", "l", "i", "t", "y", "-", "z", "o", "n", "e">>

\* C20: run() goes through its passes in the order crawl and key formation
\* with filtering, user-data, public-key, invalid-character pass, region
\* inference; so the mapping it returns holds the sanitized names of the
\* supplementary facts, and whenever the crawl recorded content other than None
\* for placement/availability-zone it holds that content under the sanitized
\* zone key and a region key whose value is a prefix of it.
C20_PassOrder ==
    [][/\ pc' # pc =>
            <<pc, pc'>> \in {<<"start", "crawl">>, <<"crawl", "user">>, <<"user", "ssh">>,
                             <<"ssh", "fix">>, <<"fix", "region">>, <<"region", "done">>,
                             <<"crawl", "raised">>}
       /\ (pc # "done" /\ pc' = "done") =>
            /\ {NewKey(prefix_ \o f_user_data), NewKey(prefix_ \o f_public_key)}
                   \subseteq DOMAIN data'
            /\ LET u == uri_meta \o zone_path
               IN  (u \in DOMAIN _data /\ _data[u] # None) =>
                      /\ zone_fact \in DOMAIN data' /\ data'[zone_fact] = _data[u]
                      /\ region_fact \in DOMAIN data'
                      /\ StartsWith(_data[u], data'[region_fact])]_vars

\* C20 witness: run() returned the region key after the crawl recorded the
\* zone leaf.
C20_Witness ==
    /\ pc = "done"
    /\ uri_meta \o zone_path \in DOMAIN _data
    /\ _data[uri_meta \o zone_path] \notin {None, <<>>}
    /\ region_fact \in DOMAIN data
    /\ data[region_fact] # data[zone_fact]

\* The children of the good listing l[n] that the GET l[m] is issued for: the
\* leaf itself, or a sub-directory whose subtree holds the URI.
Owners(l, n, m) ==
    LET kids == Split(l[n].resp, "\n")
    IN  {j \in 1..Len(kids) :
            IF EndsWith(kids[j], "/")
            THEN StartsWith(l[m].uri, l[n].uri \o kids[j])
            ELSE l[m].uri = NewUri(l[n].uri, kids[j])}

\* Under every good listing of l the GETs that follow it go through its
\* children in listing order.
CrawlOrdered(l) ==
    \A n \in 1..Len(l) :
        (l[n].kind = "listing" /\ l[n].resp # None /\ l[n].resp # <<>>) =>
            \A m1, m2 \in (n + 1)..Len(l) :
                (m1 < m2 /\ l[m1].kind \in {"listing", "leaf"} /\ l[m2].kind \in {"listing", "leaf"}) =>
                    \A j2 \in Owners(l, n, m2) :
                        Owners(l, n, m1) # {} => \E j1 \in Owners(l, n, m1) : j1 <= j2

\* C21: requests are issued one at a time (a step adds at most one GET to
\* those issued and alters none of them), the children of a listing are
\* handled in listing order, and every request for the subtree of a
\* sub-directory is issued before any request for a later sibling.
C21_CrawlOrder ==
    [][/\ Len(log') <= Len(log) + 1
       /\ SubSeq(log', 1, Len(log)) = log
       /\ CrawlOrdered(log')]_vars

\* C21 witness: after a listing, two GETs for the subtree of a sub-directory
\* were followed by the GET of a later sibling.
C21_Witness ==
    \E n \in GoodListings : \E m1, m2, m3 \in CrawlGets :
        /\ n < m1 /\ m1 < m2 /\ m2 < m3
        /\ \E j \in Owners(log, n, m1) \cap Owners(log, n, m2) :
              /\ EndsWith(Split(log[n].resp, "\n")[j], "/")
              /\ \E j3 \in Owners(log, n, m3) : j3 > j /\ Owners(log, n, m3) \cap 1..j = {}

\* C22: on a tree without repeated child names, whichever GETs fail, the crawl
\* issues no two GETs for the same URI (one listing GET per directory, one
\* content GET per leaf), a listing GET only for a URI a listing was asked of
\* and a content GET only for a leaf name, and the crawl comes to an end.
C22_CrawlTerminates ==
    /\ [](tree \in {"e2e", "keys", "deep", "clash"} =>
            /\ \A n, m \in 1..Len(log) :
                  (log[n].kind \in {"listing", "leaf"} /\ log[m].kind \in {"listing", "leaf"}
                   /\ log[n].uri = log[m].uri) => n = m
            /\ \A n \in 1..Len(log) :
                  /\ log[n].kind = "listing" => (n = 1 \/ EndsWith(log[n].uri, "/"))
                  /\ log[n].kind = "leaf" => ~EndsWith(log[n].uri, "/"))
    /\ <>(pc # "start" /\ stack = <<>>)

\* C22 witness: the crawl of the nested tree has ended after GETs that failed
\* and GETs that succeeded, listings and leaves among both.
C22_Witness ==
    /\ tree = "deep" /\ pc = "user" /\ stack = <<>>
    /\ \E n, m \in 1..Len(log) :
          /\ log[n].kind = "leaf" /\ log[n].resp = None
          /\ log[m].kind = "listing" /\ log[m].resp = None
    /\ \E n, m \in GoodListings : n # m
    /\ \E n \in 1..Len(log) : log[n].kind = "leaf" /\ log[n].resp \notin {None, <<>>}

\* C23: the raw table only grows: a step never removes an entry and never
\* changes the content recorded for a URI.
C23_RawTableOnlyGrows ==
    [][\A u \in DOMAIN _data : u \in DOMAIN _data' /\ _data'[u] = _data[u]]_vars

\* C23 witness: the crawl ended with two entries in the raw table, one of them
\* a leaf that was recorded as None, that its listing names a second time and
\* that was requested once.
C23_Witness ==
    /\ tree = "dup" /\ pc = "user"
    /\ Cardinality(DOMAIN _data) = 2
    /\ \E u \in DOMAIN _data :
          /\ _data[u] = None
          /\ \E n \in GoodListings :
                Cardinality({j \in DOMAIN Split(log[n].resp, "\n") :
                                NewUri(log[n].uri, Split(log[n].resp, "\n")[j]) = u}) = 2
          /\ Cardinality({n \in LeafGets : log[n].uri = u}) = 1

\* C24 (as claimed): in check mode main() makes no mutating call on the
\* backend, whatever the state and the input.
C24_CheckModeNoMutation ==
    module.check_mode => calls = <<>>

\* The ruleIds of the grants the group had when main() found it.
OnGroup ==
    IF ec2.found = <<>> THEN {} ELSE DOMAIN addRulesToLookup(ec2.found[1].rules, "in", NoRules)

\* The ruleIds the playbook asks for.
Asked == {RequestedId(module.rules[i]) : i \in DOMAIN module.rules}

\* The ruleIds main() has called op with.
Called(op) == {calls[n].id : n \in {m \in DOMAIN calls : calls[m].op = op}}

\* C25 (as claimed, for a list that names no rule twice): when main() exits
\* with state=present outside check mode, no requested rule that was on the
\* group has been authorized or revoked, every requested rule that was not on
\* the group has been authorized, every grant of the group that was not
\* requested has been revoked, and changed tells whether a call was made.
C25_RuleReconciliation ==
    (/\ g_exit = "exit_json" /\ module.state = "present" /\ ~module.check_mode
     /\ \A i, j \in DOMAIN module.rules : module.rules[i] = module.rules[j] => i = j)
    => /\ \A id \in Asked \cap OnGroup : id \notin Called("authorize") \cup Called("revoke")
       /\ Asked \ OnGroup \subseteq Called("authorize")
       /\ OnGroup \ Asked \subseteq Called("revoke")
       /\ changed <=> calls # <<>>

\* C26 (as claimed): a run that ends with exit_json has called
\* set_current_hostname exactly when the current name differed from the
\* requested one, set_permanent_hostname exactly when the permanent name
\* differed, reports changed exactly when it called one of them, and a second
\* run with the same name right after a successful run reports changed=false.
C26_HostnameConvergence ==
    h_pc = "exit_json" =>
        /\ "set_current_hostname" \in h_calls <=> current_name # h_name
        /\ "set_permanent_hostname" \in h_calls <=> permanent_name # h_name
        /\ h_changed <=> h_calls # {}
        /\ h_run > 1 => ~h_changed

====
